---- MODULE Spec2Model ----
(***************************************************************************)
(* pstexplorer: the entity pipeline of ner/main.py and the prev/next       *)
(* navigation of plugins/email_view.py.                                    *)
(*                                                                         *)
(* A Python str or bytes value is a sequence of one-character strings;     *)
(* None is the one-element sequence <<"None">>, which no string equals.    *)
(***************************************************************************)
EXTENDS Integers, Sequences, FiniteSets, TLC

VARIABLES rows, pc, i, body, text, doc, entities, calls, log, report,
          navTable, navCur, navState, prevLink, nextLink, navVia, navFrom

nerVars == <<rows, pc, i, body, text, doc, entities, calls, log, report>>
navVars == <<navTable, navCur, navState, prevLink, nextLink, navVia, navFrom>>
vars == <<rows, pc, i, body, text, doc, entities, calls, log, report,
          navTable, navCur, navState, prevLink, nextLink, navVia, navFrom>>

(* ------------------------------ bounds --------------------------------- *)

MaxRows == 2        \* longest corpus drawn from CoreMsgs
MaxHtmlLen == 6     \* longest body_html drawn from HtmlChars
MaxId == 5          \* largest message id of the navigated table
PageSize == 3       \* rows the JSON API returns for one request

(* --------------------------- program constants ------------------------- *)

BodyMax == 8000     \* body[:8000]
TopN == 100         \* entities.most_common(100)

(* ------------------------------ Python values -------------------------- *)

None == <<"None">>
Raise == <<"Raise">>                  \* an exception leaving the callee
EmptyStr == <<>>

Truthy(v) == v # None /\ v # <<>>     \* truth value of None / str / bytes

Whitespace == {" ", "\n"}

RECURSIVE lstrip(_)
lstrip(s) == IF s # <<>> /\ Head(s) \in Whitespace THEN lstrip(Tail(s)) ELSE s

RECURSIVE rstrip(_)
rstrip(s) ==
    IF s # <<>> /\ s[Len(s)] \in Whitespace THEN rstrip(SubSeq(s, 1, Len(s) - 1)) ELSE s

strip(s) == rstrip(lstrip(s))

Slice(s, n) == SubSeq(s, 1, IF Len(s) < n THEN Len(s) ELSE n)      \* s[:n]

\* filter(lambda v: v is not None, parts): empty strings are kept.
filter_None_keepEmpty(parts) == SelectSeq(parts, LAMBDA v : v # None)

filter_None(parts) == SelectSeq(parts, Truthy)                     \* filter(None, parts)

RECURSIVE join(_, _)
join(sep, parts) ==
    IF parts = <<>> THEN <<>>
    ELSE IF Len(parts) = 1 THEN parts[1]
    ELSE parts[1] \o sep \o join(sep, Tail(parts))

(* ------------------------------ html_strip ----------------------------- *)

\* The end of a match of <[^>]+> that starts at p, or 0 when none starts there.
TagEnd(html, p) ==
    IF html[p] # "<" THEN 0
    ELSE LET closers == {q \in (p + 2)..Len(html) :
                            /\ html[q] = ">"
                            /\ \A k \in (p + 1)..(q - 1) : html[k] # ">"}
         IN IF closers = {} THEN 0 ELSE CHOOSE q \in closers : TRUE

RECURSIVE re_sub(_, _)
re_sub(html, p) ==
    IF p > Len(html) THEN <<>>
    ELSE IF TagEnd(html, p) > 0 THEN <<" ">> \o re_sub(html, TagEnd(html, p) + 1)
    ELSE <<html[p]>> \o re_sub(html, p + 1)

\* re.sub with count=1: the first match alone is replaced.
RECURSIVE re_sub_first(_, _)
re_sub_first(html, p) ==
    IF p > Len(html) THEN <<>>
    ELSE IF TagEnd(html, p) > 0
         THEN <<" ">> \o SubSeq(html, TagEnd(html, p) + 1, Len(html))
    ELSE <<html[p]>> \o re_sub_first(html, p + 1)

html_strip_first(html) == re_sub_first(html, 1)

\* re.sub(r"<[^>]+>", " ", html)
html_strip(html) == re_sub(html, 1)

(* --------------------------- rtf_blob_to_text -------------------------- *)

\* compressed_rtf.decompress: a blob is its magic followed by its payload.
decompress(blob) ==
    IF blob # <<>> /\ blob[1] = "LZFu" THEN Tail(blob) ELSE Raise

\* bytes.decode("utf-8", errors="replace")
decode(bytes) == [k \in 1..Len(bytes) |-> IF bytes[k] = "xFF" THEN "?" ELSE bytes[k]]

\* striprtf.rtf_to_text: drops the group delimiters; "!" is a control it rejects.
rtf_to_text(rtf) ==
    IF \E k \in 1..Len(rtf) : rtf[k] = "!" THEN Raise
    ELSE SelectSeq(rtf, LAMBDA c : c \notin {"{", "}"})

\* Without the try/except: the error leaves the function.
rtf_blob_to_text_nocatch(blob) ==
    LET rtf_bytes == decompress(blob)
    IN IF rtf_bytes = Raise THEN Raise ELSE rtf_to_text(decode(rtf_bytes))

\* The try around decompress alone: an error of rtf_to_text leaves the function.
rtf_blob_to_text_halfcatch(blob) ==
    LET rtf_bytes == decompress(blob)
    IN IF rtf_bytes = Raise THEN EmptyStr ELSE rtf_to_text(decode(rtf_bytes))

rtf_blob_to_text(blob) ==
    LET rtf_bytes == decompress(blob)
    IN IF rtf_bytes = Raise THEN EmptyStr
       ELSE LET t == rtf_to_text(decode(rtf_bytes))
            IN IF t = Raise THEN EmptyStr ELSE t

(* ------------------------------ Body Resolver -------------------------- *)

\* if body_text: ... if body_html: ... elif body_rtf: ... else: ...
\* with the second test an if of its own, run whatever the first one found.
Resolved_ifNotElif(row) ==
    LET first == IF Truthy(row.body_text) THEN <<"text">> ELSE <<>>
    IN IF Truthy(row.body_html)
       THEN [ran |-> first \o <<"html">>, body |-> html_strip(row.body_html),
             decoded |-> <<>>]
       ELSE IF Truthy(row.body_rtf)
       THEN [ran |-> first \o <<"rtf">>, body |-> rtf_blob_to_text(row.body_rtf),
             decoded |-> <<row.body_rtf>>]
       ELSE [ran |-> first \o <<"none">>, body |-> EmptyStr, decoded |-> <<>>]

\* if body_text: ... elif body_html: ... elif body_rtf: ... else: ...
\* ran: the branches executed; body: the value body is left with;
\* decoded: the blobs handed to rtf_blob_to_text.
Resolved(row) ==
    IF Truthy(row.body_text)
    THEN [ran |-> <<"text">>, body |-> row.body_text, decoded |-> <<>>]
    ELSE IF Truthy(row.body_html)
    THEN [ran |-> <<"html">>, body |-> html_strip(row.body_html), decoded |-> <<>>]
    ELSE IF Truthy(row.body_rtf)
    THEN [ran |-> <<"rtf">>, body |-> rtf_blob_to_text(row.body_rtf),
          decoded |-> <<row.body_rtf>>]
    ELSE [ran |-> <<"none">>, body |-> EmptyStr, decoded |-> <<>>]

\* The branch that assigned body last.
Branch(row) == Resolved(row).ran[Len(Resolved(row).ran)]

\* The branches in another order: body_html first.
ResolveBody_htmlFirst(row) ==
    IF Truthy(row.body_html) THEN html_strip(row.body_html)
    ELSE IF Truthy(row.body_text) THEN row.body_text
    ELSE IF Truthy(row.body_rtf) THEN rtf_blob_to_text(row.body_rtf)
    ELSE EmptyStr

ResolveBody(row) == Resolved(row).body

(* ---------------------------- Document Assembler ----------------------- *)

Assemble(row, b) ==
    join(<<" ">>, filter_None(<<row.sender, row.to, row.subject, Slice(b, BodyMax)>>))

(* ------------------------------ Entity Extractor ----------------------- *)

\* nlp stands for the loaded spaCy pipeline: a deterministic function of the
\* text.  A token is a maximal run of EntChars; it is reported as an entity
\* unless it begins with "x", labelled after its first character.  A token may
\* carry line breaks, so ent.text may need trimming or be whitespace only.
EntChars == {"a", "b", "x", "\n"}

label_(c) == IF c = "a" THEN "PERSON" ELSE IF c = "b" THEN "ORG" ELSE "GPE"

Starts(s) ==
    {p \in 1..Len(s) : s[p] \in EntChars /\ (p = 1 \/ s[p - 1] \notin EntChars)}

Ends(s) ==
    {q \in 1..Len(s) :
        s[q] \in EntChars /\ (q = Len(s) \/ s[q + 1] \notin EntChars)}

\* The members of a set of numbers, ascending.
SortedSeq(S) ==
    [k \in 1..Cardinality(S) |-> CHOOSE x \in S : Cardinality({y \in S : y <= x}) = k]

Tokens(s) ==
    LET starts == SortedSeq(Starts(s))
        ends == SortedSeq(Ends(s))
    IN [k \in 1..Len(starts) |-> SubSeq(s, starts[k], ends[k])]

nlp(s) ==
    LET named == SelectSeq(Tokens(s), LAMBDA t : t[1] # "x")
    IN [k \in 1..Len(named) |-> [label_ |-> label_(named[k][1]), text |-> named[k]]]

(* ------------------------------ Aggregator ----------------------------- *)

\* A Counter is a dict: its items in insertion order, each a key and its count.
Keys(counter) == {counter[k].key : k \in 1..Len(counter)}

Count(counter, key) ==
    IF key \in Keys(counter)
    THEN (CHOOSE e \in {counter[k] : k \in 1..Len(counter)} : e.key = key).n
    ELSE 0

\* Keys told apart by their text alone, whatever the label.
SameKey_byText(a, b) == a[2] = b[2]

\* Two keys (ent.label_, cleaned) are the same dict key.
SameKey(a, b) == a = b

\* The keys the loop over doc.ents counts, in order: (ent.label_, cleaned) of
\* every span whose cleaned text is non-empty.
CleanedKeys(ents) ==
    SelectSeq([k \in 1..Len(ents) |-> <<ents[k].label_, strip(ents[k].text)>>],
              LAMBDA key : key[2] # <<>>)

\* A key counts once for a document, however often it occurs in it.
Occurrences_perDocument(keys, key) ==
    IF \E k \in 1..Len(keys) : SameKey(keys[k], key) THEN 1 ELSE 0

\* How many times the loop runs entities[key] += 1.
Occurrences(keys, key) == Cardinality({k \in 1..Len(keys) : SameKey(keys[k], key)})

\* for ent in doc.ents: cleaned = ent.text.strip(); if cleaned: entities[...] += 1
\* The loop leaves each old key raised by its occurrences and, after them, the
\* new keys in the order they were first met.
Tally(counter, ents) ==
    LET keys == CleanedKeys(ents)
        first == {k \in 1..Len(keys) :
                     /\ \A c \in 1..Len(counter) : ~SameKey(counter[c].key, keys[k])
                     /\ \A j \in 1..(k - 1) : ~SameKey(keys[j], keys[k])}
        order == SortedSeq(first)
    IN [c \in 1..Len(counter) |->
           [key |-> counter[c].key, n |-> counter[c].n + Occurrences(keys, counter[c].key)]]
       \o [m \in 1..Len(order) |->
              [key |-> keys[order[m]], n |-> Occurrences(keys, keys[order[m]])]]

\* The first n items as inserted, unsorted.
most_common_unsorted(counter, n) == Slice(counter, n)

\* Counter.most_common(n): sorted by count, largest first, ties in insertion
\* order, cut to the first n.
most_common(counter, n) ==
    LET rank(k) == 1 + Cardinality({j \in 1..Len(counter) :
                          \/ counter[j].n > counter[k].n
                          \/ (counter[j].n = counter[k].n /\ j < k)})
        sorted == [r \in 1..Len(counter) |->
                      counter[CHOOSE k \in 1..Len(counter) : rank(k) = r]]
    IN Slice(sorted, n)

(* ------------------------------ the driver ----------------------------- *)

\* if not text: continue
Skipped_noStrip(s) == s = <<>>

\* if not text.strip(): continue
Skipped(s) == strip(s) = <<>>

\* What one whole pass of the loop body does to the Counter.
LoopBody(counter, row) ==
    LET b == ResolveBody(row)
    IN IF b = Raise \/ Skipped(Assemble(row, b)) THEN counter
       ELSE Tally(counter, nlp(Assemble(row, b)))

\* log keeps, for each row the loop has reached, its index, the branch that
\* resolved its body, the body, the branches run, the blobs given to the
\* Rich-Text Decoder, the assembled text and whether nlp was called.

\* if body_text: ... elif body_html: ... elif body_rtf: ... else: ...
Resolve ==
    /\ pc = "resolve"
    /\ i <= Len(rows)
    /\ body' = ResolveBody(rows[i])
    /\ pc' = IF body' = Raise THEN "aborted" ELSE "assemble"
    /\ log' = Append(log, [row |-> i, branch |-> Branch(rows[i]), body |-> body',
                           ran |-> Resolved(rows[i]).ran,
                           decoded |-> Resolved(rows[i]).decoded,
                           text |-> None, called |-> FALSE])
    /\ UNCHANGED <<rows, i, text, doc, entities, calls, report>>
    /\ UNCHANGED navVars

\* text = " ".join(...); if not text.strip(): continue
AssembleText ==
    /\ pc = "assemble"
    /\ text' = Assemble(rows[i], body)
    /\ log' = [log EXCEPT ![i].text = text']
    /\ IF Skipped(text')
       THEN pc' = "resolve" /\ i' = i + 1
       ELSE pc' = "extract" /\ i' = i
    /\ UNCHANGED <<rows, body, doc, entities, calls, report>>
    /\ UNCHANGED navVars

\* doc = nlp(text)
Extract ==
    /\ pc = "extract"
    /\ doc' = nlp(text)
    /\ calls' = Append(calls, [row |-> i, text |-> text])
    /\ log' = [log EXCEPT ![i].called = TRUE]
    /\ pc' = "count"
    /\ UNCHANGED <<rows, i, body, text, entities, report>>
    /\ UNCHANGED navVars

\* for ent in doc.ents: ...   and on to the next row
CountEnts ==
    /\ pc = "count"
    /\ entities' = Tally(entities, doc)
    /\ i' = i + 1
    /\ pc' = "resolve"
    /\ UNCHANGED <<rows, body, text, doc, calls, log, report>>
    /\ UNCHANGED navVars

\* The report after the loop.
Report ==
    /\ pc = "resolve"
    /\ i > Len(rows)
    /\ report' = most_common(entities, TopN)
    /\ pc' = "done"
    /\ UNCHANGED <<rows, i, body, text, doc, entities, calls, log>>
    /\ UNCHANGED navVars

(* ------------------------------ the inputs ----------------------------- *)

Msg(sender, to, subject, body_text, body_html, body_rtf) ==
    [sender |-> sender, to |-> to, subject |-> subject,
     body_text |-> body_text, body_html |-> body_html, body_rtf |-> body_rtf]

CorruptBlob == <<"junk", "a">>              \* no compressed-RTF container
BadRtfBlob == <<"LZFu", "{", "!", "a">>     \* a container of malformed rich text
GoodBlob == <<"LZFu", "{", "b", "}">>
LossyBlob == <<"LZFu", "a", "xFF">>         \* holds an invalid byte sequence

\* Messages of the corpora: sequences of them, up to MaxRows long.
CoreMsgs ==
    { Msg(None, None, None, None, None, None),
      Msg(<<>>, <<>>, <<>>, <<>>, <<>>, CorruptBlob),
      Msg(None, None, None, None, None, BadRtfBlob),
      Msg(None, None, None, <<"a">>, None, None),
      Msg(None, None, <<>>, <<"a", " ", "a">>, <<"<", "b", ">">>, None),
      Msg(<<"b">>, None, None, None, <<"<", "x", ">", "a">>, CorruptBlob),
      Msg(None, None, None, None, None, GoodBlob),
      Msg(None, None, <<" ">>, None, None, None),
      Msg(None, <<"b">>, <<"\n", "a", "\n">>, <<"\n">>, None, None),
      Msg(<<"x">>, <<"a">>, None, <<>>, <<>>, <<>>) }

Corpora == UNION {[1..n -> CoreMsgs] : n \in 0..MaxRows}

\* One message, every combination of the three body fields.
TextVals == {None, <<>>, <<"a">>, <<" ">>, <<"b", " ", "a">>}
HtmlVals == {None, <<>>, <<"b">>, <<"<", "a", ">", "b">>, <<"<", ">">>}
RtfVals == {None, <<>>, CorruptBlob, BadRtfBlob, GoodBlob, LossyBlob}

BodyCases ==
    { <<Msg(s, t, j, bt, bh, br)>> :
        s \in {None, <<>>, <<"b">>}, t \in {None, <<"a">>}, j \in {None, <<>>, <<"x">>},
        bt \in TextVals, bh \in HtmlVals, br \in RtfVals }

\* One message with body_html alone: every string over HtmlChars.
HtmlChars == {"<", ">", "a"}
HtmlStrings == UNION {[1..n -> HtmlChars] : n \in 0..MaxHtmlLen}

HtmlCases == { <<Msg(None, None, None, bt, h, None)>> : bt \in {None, <<>>}, h \in HtmlStrings }

\* Bodies at the program's limits: more than TopN distinct names, and a body
\* longer than BodyMax whose cut falls inside a name.
TokStart(k) == 1 + ((k - 1) * k) \div 2 + (k - 1)       \* the k-th name is k letters
A(n) == [p \in 1..n |-> "a"]
ManyNames(n) ==
    [p \in 1..(TokStart(n) + n - 1) |->
        IF \E k \in 2..n : p = TokStart(k) - 1 THEN " " ELSE "a"]
LongBody == [p \in 1..(BodyMax + 1) |-> IF p < BodyMax - 1 THEN "x"
                                        ELSE IF p = BodyMax - 1 THEN " "
                                        ELSE IF p = BodyMax THEN "a" ELSE "b"]

LimitCases ==
    { <<Msg(None, None, None, ManyNames(TopN + 1), None, None)>>,
      <<Msg(None, None, None, ManyNames(TopN + 1), None, None),
        Msg(None, None, None, A(TopN + 1), None, None)>>,
      <<Msg(None, None, None, A(TopN), None, None),
        Msg(<<"a">>, None, None, ManyNames(TopN), None, None)>>,
      <<Msg(<<"b">>, None, <<>>, LongBody, None, None)>>,
      <<Msg(<<"b">>, None, None, Slice(LongBody, BodyMax), None, None)>> }

Inputs == Corpora \cup BodyCases \cup HtmlCases \cup LimitCases

(* --------------------- email_view: prev/next navigation ---------------- *)

\* String(n): the decimal digits of n.
Digit(d) == <<"0", "1", "2", "3", "4", "5", "6", "7", "8", "9">>[d + 1]

RECURSIVE String(_)
String(n) == IF n < 10 THEN <<Digit(n)>> ELSE String(n \div 10) \o <<Digit(n % 10)>>

basePath == <<"/testPST/messages">>
Disabled == [className |-> "disabled", href |-> <<"#">>]

\* ids.indexOf(currentId), an index from 0, or -1.
indexOf(ids, currentId) ==
    IF \E k \in 1..Len(ids) : ids[k] = currentId
    THEN (CHOOSE k \in 1..Len(ids) :
              ids[k] = currentId /\ \A j \in 1..(k - 1) : ids[j] # currentId) - 1
    ELSE -1

\* ids[j], an index from 0; undefined outside the array.
At(ids, j) == IF j >= 0 /\ j < Len(ids) THEN ids[j + 1] ELSE <<"undefined">>

\* if (idx > 0)
hasPrev(ids, idx) == idx > 0

\* idx < ids.length in place of idx < ids.length - 1
hasNext_upToLength(ids, idx) == idx >= 0 /\ idx < Len(ids)

\* if (idx >= 0 && idx < ids.length - 1)
hasNext(ids, idx) == idx >= 0 /\ idx < Len(ids) - 1

Enabled(href) == [className |-> "", href |-> href]

\* The then-callback of fetch(apiBase): the first page of ids, ascending.
FetchThen ==
    /\ navState = "fetching"
    /\ LET apiRows == Slice(navTable, PageSize)
           ids == [k \in 1..Len(apiRows) |-> String(apiRows[k])]
           idx == indexOf(ids, String(navCur))
       IN /\ prevLink' = IF hasPrev(ids, idx)
                         THEN Enabled(basePath \o <<"/">> \o At(ids, idx - 1))
                         ELSE prevLink
          /\ nextLink' = IF hasNext(ids, idx)
                         THEN Enabled(basePath \o <<"/">> \o At(ids, idx + 1))
                         ELSE nextLink
    /\ navState' = "ready"
    /\ UNCHANGED <<navTable, navCur, navVia, navFrom>>
    /\ UNCHANGED nerVars

\* The browser follows an enabled link: the row view of the message at href
\* loads and the script runs again.
Follow(link, via) ==
    /\ navState \in {"fetching", "ready"}
    /\ link.className # "disabled"
    /\ \E id \in 1..MaxId :
          /\ Len(navTable) >= 1
          /\ \E k \in 1..Len(navTable) : navTable[k] = id
          /\ link.href = basePath \o <<"/">> \o String(id)
          /\ navCur' = id
    /\ navVia' = via
    /\ navFrom' = navCur
    /\ prevLink' = Disabled
    /\ nextLink' = Disabled
    /\ navState' = "fetching"
    /\ UNCHANGED navTable
    /\ UNCHANGED nerVars

ClickNext == Follow(nextLink, "next")
ClickPrev == Follow(prevLink, "prev")

(* ------------------------------ specifications ------------------------- *)

NerInit(inputs) ==
    /\ rows \in inputs
    /\ pc = "resolve"
    /\ i = 1
    /\ body = <<>>
    /\ text = <<>>
    /\ doc = <<>>
    /\ entities = <<>>
    /\ calls = <<>>
    /\ log = <<>>
    /\ report = <<>>

NerIdle ==
    /\ rows = <<>>
    /\ pc = "idle"
    /\ i = 1
    /\ body = <<>>
    /\ text = <<>>
    /\ doc = <<>>
    /\ entities = <<>>
    /\ calls = <<>>
    /\ log = <<>>
    /\ report = <<>>

NavInit ==
    /\ navTable \in {SortedSeq(S) : S \in SUBSET (1..MaxId) \ {{}}}
    /\ navCur \in {navTable[k] : k \in 1..Len(navTable)}
    /\ navState = "fetching"
    /\ prevLink = Disabled
    /\ nextLink = Disabled
    /\ navVia = "url"
    /\ navFrom = navCur

NavIdle ==
    /\ navTable = <<>>
    /\ navCur = 0
    /\ navState = "idle"
    /\ prevLink = Disabled
    /\ nextLink = Disabled
    /\ navVia = "url"
    /\ navFrom = 0

Init == NerInit(Inputs) /\ NavIdle
Next == Resolve \/ AssembleText \/ Extract \/ CountEnts \/ Report
Spec == Init /\ [][Next]_vars

\* The loop is sequential code: whatever step is enabled is eventually taken.
\* Checked over the corpora and the one-message cases.
InitFair == NerInit(Corpora \cup BodyCases \cup HtmlCases) /\ NavIdle
FairSpec == InitFair /\ [][Next]_vars /\ WF_vars(Next)

InitNav == NavInit /\ NerIdle
NextNav == FetchThen \/ ClickNext \/ ClickPrev
SpecNav == InitNav /\ [][NextNav]_vars

(* ------------------------------ the claims ----------------------------- *)

Reached == 1..Len(log)        \* the rows whose body has been resolved
Handled == 1..(i - 1)         \* the rows the loop has finished with

\* C1: a message whose body_text is present and non-empty resolves to exactly
\* that body_text, whatever body_html and body_rtf hold.
C1_TextPrecedence ==
    \A k \in Reached :
        Truthy(rows[k].body_text) =>
            /\ log[k].body = rows[k].body_text
            /\ log[k].branch = "text"

C1_Witness ==
    \E k \in Reached :
        /\ Truthy(rows[k].body_text)
        /\ rows[k].body_html = <<"<", "a", ">", "b">>
        /\ rows[k].body_rtf = CorruptBlob
        /\ log[k].body = rows[k].body_text

\* The spans the Extractor returned for the k-th row (none when it was skipped).
DocEnts(k) == IF log[k].called THEN nlp(log[k].text) ELSE <<>>

\* The places among spans that carry key once trimmed.
Mentions(spans, key) ==
    {p \in 1..Len(spans) : spans[p].label_ = key[1] /\ strip(spans[p].text) = key[2]}

SpanKeys(spans) ==
    {<<spans[p].label_, strip(spans[p].text)>> :
        p \in {q \in 1..Len(spans) : strip(spans[q].text) # <<>>}}

\* C2 as claimed: after the whole corpus, the count of a key is the number of
\* documents with at least one span of that label and trimmed text.
C2_CountsDocuments ==
    pc = "done" =>
        LET spans == [k \in Reached |-> DocEnts(k)]
            keys == Keys(entities) \cup UNION {SpanKeys(spans[k]) : k \in Reached}
        IN \A key \in keys :
               Count(entities, key) =
                   Cardinality({k \in Reached : Mentions(spans[k], key) # {}})

\* C2 as amended: after the whole corpus, the count of a key is the number of
\* spans of that label and trimmed (non-empty) text the Extractor returned,
\* over all documents: a document with two such spans counts twice.
C2_CountsOccurrences ==
    pc = "done" =>
        LET spans == [k \in Reached |-> DocEnts(k)]
            keys == Keys(entities) \cup UNION {SpanKeys(spans[k]) : k \in Reached}
        IN \A key \in keys :
               Count(entities, key) =
                   Cardinality(UNION {{<<k, p>> : p \in Mentions(spans[k], key)} :
                                         k \in Reached})

C2_Witness ==
    /\ pc = "done"
    /\ Len(rows) = 2
    /\ Count(entities, <<"PERSON", <<"a">>>>) = 3
    /\ Count(entities, <<"ORG", <<"b">>>>) = 1

\* The Counter the loop leaves after the rows rs, from counter.
RECURSIVE Aggregate(_, _)
Aggregate(counter, rs) ==
    IF rs = <<>> THEN counter ELSE Aggregate(LoopBody(counter, Head(rs)), Tail(rs))

AsMap(counter) == {<<counter[k].key, counter[k].n>> : k \in 1..Len(counter)}

\* C3: the final map from (label, text) to count is the same for every
\* ordering of the same rows.
C3_OrderIndependent ==
    pc = "done" =>
        \A perm \in Permutations(1..Len(rows)) :
            AsMap(Aggregate(<<>>, [k \in 1..Len(rows) |-> rows[perm[k]]])) = AsMap(entities)

C3_Witness ==
    /\ pc = "done"
    /\ Len(rows) = 2
    /\ Len(entities) >= 2
    /\ Aggregate(<<>>, <<rows[2], rows[1]>>) # entities
    /\ \E k \in 1..Len(entities) : entities[k].n = 2

Min(a, b) == IF a < b THEN a ELSE b

Entries(counter) == {counter[k] : k \in 1..Len(counter)}

\* C4: the report is the top-TopN cut of the Aggregate by count: it holds
\* min(TopN, number of keys) entries of the Aggregate, their counts never
\* increase down the report, and no key left out has a greater count than a
\* key in it.
C4_RankedReport ==
    pc = "done" =>
        /\ Len(report) = Min(TopN, Cardinality(Keys(entities)))
        /\ \A r \in 1..Len(report) : report[r] \in Entries(entities)
        /\ \A r, q \in 1..Len(report) : r # q => report[r].key # report[q].key
        /\ \A r \in 1..(Len(report) - 1) : report[r].n >= report[r + 1].n
        /\ \A x \in Entries(entities) \ Entries(report) :
               \A r \in 1..Len(report) : x.n <= report[r].n

C4_Witness ==
    /\ pc = "done"
    /\ Len(entities) = TopN + 1
    /\ Len(report) = TopN
    /\ report[1] = entities[TopN + 1]
    /\ report[1].n > report[TopN].n
    /\ entities[TopN] \notin Entries(report)

NonBlank(s) == \E p \in 1..Len(s) : s[p] \notin Whitespace

\* C5: the Extractor is called once with the text of each message whose text
\* is non-empty after trimming and never for a message whose text is empty or
\* whitespace only, and a message it is not called for changes no count.
C5_Calls ==
    /\ \A k \in Handled :
           /\ log[k].called <=> NonBlank(log[k].text)
           /\ Cardinality({c \in 1..Len(calls) : calls[c].row = k})
                  = IF NonBlank(log[k].text) THEN 1 ELSE 0
    /\ \A c \in 1..Len(calls) : calls[c].text = log[calls[c].row].text

C5_Step ==
    /\ (pc = "assemble" /\ ~NonBlank(Assemble(rows[i], body))) =>
           (pc' = "resolve" /\ i' = i + 1 /\ calls' = calls /\ entities' = entities)
    /\ entities' # entities =>
           (pc = "count" /\ calls # <<>> /\ calls[Len(calls)].row = i /\ NonBlank(text))

C5_ExtractorCalls == []C5_Calls /\ [][C5_Step]_vars

C5_Witness ==
    /\ i = 3
    /\ log[1].text = <<" ">>
    /\ ~log[1].called
    /\ log[2].called
    /\ calls = <<[row |-> 2, text |-> log[2].text]>>
    /\ entities # <<>>

\* A blob on which decompression or rich-text stripping fails.
Fails(blob) ==
    \/ decompress(blob) = Raise
    \/ rtf_to_text(decode(decompress(blob))) = Raise

\* A message whose only non-empty field is a blob that fails.
CorruptOnly(row) ==
    /\ ~Truthy(row.sender) /\ ~Truthy(row.to) /\ ~Truthy(row.subject)
    /\ ~Truthy(row.body_text) /\ ~Truthy(row.body_html)
    /\ Truthy(row.body_rtf) /\ Fails(row.body_rtf)

\* C6: for a blob that fails, rtf_blob_to_text returns the empty string and
\* no error leaves it; a message whose only non-empty field is such a blob
\* is not passed to the Extractor and adds nothing to the Aggregate, and the
\* run goes on towards the report.
C6_CorruptRtf ==
    /\ pc \in {"resolve", "assemble", "extract", "count", "done"}
    /\ i <= Len(rows) + 1
    /\ \A blob \in RtfVals \ {None, <<>>} : Fails(blob) => rtf_blob_to_text(blob) = <<>>
    /\ \A k \in Reached :
           (log[k].branch = "rtf" /\ Fails(rows[k].body_rtf)) => log[k].body = <<>>
    /\ \A k \in Handled :
           CorruptOnly(rows[k]) => (~log[k].called /\ log[k].text = <<>>)
    /\ pc \in {"resolve", "done"} =>
           entities = Aggregate(<<>>, SelectSeq(SubSeq(rows, 1, i - 1),
                                                LAMBDA row : ~CorruptOnly(row)))

C6_Witness ==
    /\ pc = "done"
    /\ Len(rows) = 2
    /\ rows[1].body_rtf = BadRtfBlob
    /\ CorruptOnly(rows[1])
    /\ ~log[1].called
    /\ log[2].called
    /\ entities # <<>>

\* C8: every row is handled once, in store order, whatever the rows before
\* it held, and the run reaches the report.
C8_Handling ==
    /\ pc # "aborted"
    /\ Len(log) \in {i - 1, i}
    /\ \A k \in Reached : log[k].row = k

C8_Completes == []C8_Handling /\ <>(pc = "done" /\ Len(log) = Len(rows))

C8_Witness ==
    /\ pc = "done"
    /\ Len(rows) = 2
    /\ rows[1] = Msg(None, None, None, None, None, BadRtfBlob)
    /\ rows[2] = Msg(None, None, None, <<"a">>, None, None)
    /\ Len(log) = 2
    /\ log[2].called

\* The text the Assembler is to build: the members that are present and
\* non-empty, each after a single space when a member precedes it.
Expected(row, b) ==
    LET member(v) == IF v = None \/ Len(v) = 0 THEN <<>> ELSE v
        members == <<member(row.sender), member(row.to), member(row.subject),
                     [p \in 1..Min(Len(b), BodyMax) |-> b[p]]>>
        sep(m) == IF members[m] # <<>> /\ \E j \in 1..(m - 1) : members[j] # <<>>
                  THEN <<" ">> ELSE <<>>
    IN members[1] \o sep(2) \o members[2] \o sep(3) \o members[3] \o sep(4) \o members[4]

\* C9: the extractor input is the present, non-empty members of sender,
\* to-recipients, subject and the first BodyMax characters of the body, in that
\* order, joined by one space; a message with body_text alone, at most BodyMax
\* long, yields that body_text.
C9_AssembledDocument ==
    \A k \in Handled :
        /\ log[k].text = Expected(rows[k], log[k].body)
        /\ log[k].called => \E c \in 1..Len(calls) : calls[c] = [row |-> k, text |-> log[k].text]
        /\ ( /\ ~Truthy(rows[k].sender) /\ ~Truthy(rows[k].to) /\ ~Truthy(rows[k].subject)
             /\ Truthy(rows[k].body_text) /\ Len(rows[k].body_text) <= BodyMax )
           => log[k].text = rows[k].body_text

C9_Witness ==
    \E k \in Handled :
        /\ Len(log[k].body) = BodyMax + 1
        /\ rows[k].sender = <<"b">>
        /\ rows[k].to = None
        /\ rows[k].subject = <<>>
        /\ Len(log[k].text) = BodyMax + 2
        /\ log[k].text[2] = " "
        /\ log[k].text[BodyMax + 2] = "a"
        /\ calls[1].text = log[k].text

\* A '<' with a later '>'.
HasAnglePair(s) ==
    \E p \in 1..Len(s) : \E q \in (p + 1)..Len(s) : s[p] = "<" /\ s[q] = ">"

\* A '<', then one or more characters other than '>', then '>'.
HasTag(s) ==
    \E p \in 1..Len(s) : \E q \in (p + 2)..Len(s) :
        /\ s[p] = "<"
        /\ s[q] = ">"
        /\ \A k \in (p + 1)..(q - 1) : s[k] # ">"

HtmlOnly(row) == ~Truthy(row.body_text) /\ Truthy(row.body_html)

\* C7 as stated: for a message with body_html alone, the resolved body has
\* no substring that starts with '<' and ends at a later '>'.
C7_NoAngleSubstring ==
    \A k \in Reached : HtmlOnly(rows[k]) => ~HasAnglePair(log[k].body)

\* C7, amended: for a message with body_html alone, the resolved body has no
\* substring made of '<', one or more characters other than '>', and '>':
\* every '<' left in it is directly followed by '>' or has no '>' after it.
C7_NoTagRemains ==
    \A k \in Reached :
        HtmlOnly(rows[k]) =>
            /\ log[k].branch = "html"
            /\ ~HasTag(log[k].body)
            /\ \A p \in 1..Len(log[k].body) :
                   log[k].body[p] = "<" =>
                       \/ (p < Len(log[k].body) /\ log[k].body[p + 1] = ">")
                       \/ \A q \in (p + 1)..Len(log[k].body) : log[k].body[q] # ">"

C7_Witness ==
    \E k \in Reached :
        /\ rows[k].body_text = <<>>
        /\ rows[k].body_html = <<"<", "a", ">", "<", ">", "a">>
        /\ log[k].body = <<" ", "<", ">", "a">>

\* The list the script fetched, and the place of the current message in it.
Page == SubSeq(navTable, 1, Min(Len(navTable), PageSize))
Pos == {k \in 1..Len(Page) : Page[k] = navCur}
RowView(id) == basePath \o <<"/">> \o String(id)

\* C10: once the id list is fetched, for the current message at index i of
\* it, Previous is enabled and points to the message at i-1 exactly when
\* i > 0, Next is enabled and points to the message at i+1 exactly when i is
\* not the last index, a link is otherwise left disabled, and following Next
\* from message i lands on the row view of message i+1.
C10_PrevNext ==
    /\ navState = "ready" =>
           \A k \in Pos :
               /\ prevLink = IF k > 1 THEN [className |-> "", href |-> RowView(Page[k - 1])]
                             ELSE [className |-> "disabled", href |-> <<"#">>]
               /\ nextLink = IF k < Len(Page) THEN [className |-> "", href |-> RowView(Page[k + 1])]
                             ELSE [className |-> "disabled", href |-> <<"#">>]
    /\ navVia = "next" =>
           \E k \in 1..(Len(Page) - 1) : Page[k] = navFrom /\ Page[k + 1] = navCur
    /\ navVia = "prev" =>
           \E k \in 2..Len(Page) : Page[k] = navFrom /\ Page[k - 1] = navCur

C10_Witness ==
    /\ navState = "ready"
    /\ navVia = "next"
    /\ Len(navTable) > PageSize
    /\ navFrom = navTable[1]
    /\ navCur = navTable[2]
    /\ prevLink = [className |-> "", href |-> RowView(navTable[1])]
    /\ nextLink = [className |-> "", href |-> RowView(navTable[3])]

\* C11 as stated: one branch produces the body; with body_text absent or
\* empty and body_html anything but absent, the body is the stripped body_html
\* and the Rich-Text Decoder is not invoked; the Decoder is consulted only
\* when body_text is absent or empty and body_html is absent.
C11_HtmlPresent ==
    \A k \in Reached :
        /\ Len(log[k].ran) = 1
        /\ (~Truthy(rows[k].body_text) /\ rows[k].body_html # None) =>
               /\ log[k].body = html_strip(rows[k].body_html)
               /\ log[k].decoded = <<>>
        /\ log[k].decoded # <<>> =>
               (~Truthy(rows[k].body_text) /\ rows[k].body_html = None)

\* C11, amended: one branch produces the body; with body_text absent or empty
\* and body_html present and non-empty, the body is the stripped body_html and
\* the Rich-Text Decoder is not invoked; the Decoder is consulted only when
\* body_text and body_html are each absent or empty.
C11_BranchSelection ==
    \A k \in Reached :
        /\ Len(log[k].ran) = 1
        /\ log[k].branch = log[k].ran[1]
        /\ (~Truthy(rows[k].body_text) /\ Truthy(rows[k].body_html)) =>
               /\ log[k].ran = <<"html">>
               /\ log[k].body = html_strip(rows[k].body_html)
               /\ log[k].decoded = <<>>
        /\ log[k].decoded # <<>> =>
               /\ ~Truthy(rows[k].body_text)
               /\ ~Truthy(rows[k].body_html)
               /\ log[k].ran = <<"rtf">>
               /\ log[k].decoded = <<rows[k].body_rtf>>

C11_Witness ==
    \E k \in Reached :
        /\ rows[k].body_text = <<>>
        /\ rows[k].body_html = <<"<", "a", ">", "b">>
        /\ rows[k].body_rtf = GoodBlob
        /\ log[k].ran = <<"html">>
        /\ log[k].body = <<" ", "b">>
        /\ log[k].decoded = <<>>

====
